---- MODULE Spec2Model ----
(***************************************************************************)
(* Baseline / deviation-tracking core of the repository                    *)
(* (src/baseline_core: db.py, routes.py, diff.py).                          *)
(*                                                                         *)
(* The persistent store is one SQLite file.  Every handler opens its own   *)
(* connection (get_conn), so the model keeps                               *)
(*   db   - the committed contents of the tables,                          *)
(*   wdb  - the working copy of the single connection that holds SQLite's  *)
(*          write lock (equal to db while nobody holds it),                *)
(*   lock - the owner of the write lock.                                   *)
(* Python's sqlite3 module (default isolation_level) runs a SELECT issued   *)
(* before the first INSERT/UPDATE/DELETE in autocommit mode, i.e. against   *)
(* the committed state, and opens the write transaction implicitly at the   *)
(* first data-modifying statement; the transaction ends at conn.commit(),   *)
(* or is discarded when the connection goes away without a commit.          *)
(*                                                                         *)
(* Strings whose content the code inspects (configuration texts, user and   *)
(* token strings) are sequences of one-character strings.  Columns filled   *)
(* by CURRENT_TIMESTAMP defaults (created_at, proposed_at, set_at,          *)
(* replaced_at) and the unused column snippet_text are not modelled.        *)
(***************************************************************************)
EXTENDS Integers, Sequences, FiniteSets, TLC

VARIABLES db, wdb, lock, pc, loc, resp

vars == <<db, wdb, lock, pc, loc, resp>>

-----------------------------------------------------------------------------
(* Bounds of the model *)

\* cap on the number of ConfigSnapshot rows (committed plus being inserted)
MaxSnapshots == 2
\* the values datetime.utcnow() can return are 1..MaxTime
MaxTime == 1

-----------------------------------------------------------------------------
(* Inputs *)

Procs == {"w1", "w2"}          \* concurrently served requests (Flask threads)
NoOwner == "none"

Devices == {1, 2}

TextA == <<"h","o","s","t","n","a","m","e"," ","r","1">>
TextB == <<"h","o","s","t","n","a","m","e"," ","r","1","\n","i","n","t","e","r","f","a","c","e"," ","l","o","0">>
EmptyText == <<>>
Texts == {TextA, TextB}

Comments == {<<"c">>}

Actions == {"approve", "reject"}
BadAction == "delete"

Times == 1..MaxTime

\* a request's credentials: the session's username and the Authorization header
\* (<<>> stands for an absent one)
CredAlice == [username |-> <<"a","l","i","c","e">>, authorization |-> <<>>]
CredToken == [username |-> <<>>,
              authorization |-> <<"B","e","a","r","e","r"," ","a","b","c","d","e","f","g","h","i","j","k","l","m">>]
CredNone == [username |-> <<>>, authorization |-> <<>>]
Creds == {CredAlice, CredToken}

\* the requests tried: every combination of valid arguments, and one request for
\* each argument check that fails before the tables are looked at
ProposeInputs == (Devices \X Texts \X Creds)
                   \cup {<<1, EmptyText, CredAlice>>, <<1, TextA, CredNone>>}
DecideInputs == ((1..MaxSnapshots) \X Actions \X Creds)
                   \cup {<<1, BadAction, CredAlice>>, <<1, "approve", CredNone>>}

-----------------------------------------------------------------------------
(* Helpers on sequences of characters *)

Min(a, b) == IF a < b THEN a ELSE b

SetMax(S) == IF S = {} THEN 0 ELSE CHOOSE x \in S : \A y \in S : y <= x

\* str.startswith
StartsWith(s, pre) == Len(s) >= Len(pre) /\ SubSeq(s, 1, Len(pre)) = pre

Alphabet == <<"\n"," ","!","+","-","0","1","2","3","@","_","a","b","c","d","e","f","g","h","i","j","k","l","m","n","o","p","q","r","s","t","u","v","w","x","y","z">>

\* the byte a character encodes to (its position in Alphabet)
CodeTable ==
    [c \in {Alphabet[i] : i \in 1..Len(Alphabet)} |->
        CHOOSE i \in 1..Len(Alphabet) : Alphabet[i] = c]
Code(c) == CodeTable[c]

RECURSIVE Digest(_, _)
Digest(s, h) == IF s = <<>> THEN h
                ELSE Digest(Tail(s), (h * 31 + Code(Head(s))) % 65536)

\* hashlib.sha256(text.encode()).hexdigest(): a digest computed from the bytes of
\* the text (a 16-bit polynomial digest stands for SHA-256; it is collision-free
\* on Texts, as SHA-256 is taken to be)
_sha(text) == Digest(text, 7)

-----------------------------------------------------------------------------
(* _current_user *)

TokenPrefixLen == 12
BearerPrefix == <<"B","e","a","r","e","r"," ">>
TokPrefix == <<"t","o","k","_">>
\* the result standing for "raise Forbidden('User not authenticated')"
Unauthenticated == <<>>

_current_user(cred) ==
    IF cred.username # <<>> THEN cred.username
    ELSE IF cred.authorization # <<>> /\ StartsWith(cred.authorization, BearerPrefix)
         THEN LET token == SubSeq(cred.authorization, Len(BearerPrefix) + 1,
                                  Len(cred.authorization))
              IN IF token # <<>>
                 THEN TokPrefix \o SubSeq(token, 1, Min(TokenPrefixLen, Len(token)))
                 ELSE Unauthenticated
         ELSE Unauthenticated

-----------------------------------------------------------------------------
(* diff.py: difflib.unified_diff and classify_severity                        *)

RECURSIVE IndexOf(_, _, _)
\* the least index >= i of character c in s, 0 when there is none
IndexOf(s, c, i) == IF i > Len(s) THEN 0
                    ELSE IF s[i] = c THEN i ELSE IndexOf(s, c, i + 1)

RECURSIVE splitlines(_)
\* the first line of s, which ends before index i (0: s is one line), and the rest
SplitAt(s, i) ==
    IF i = 0 THEN <<s>>
    ELSE <<SubSeq(s, 1, i - 1)>> \o splitlines(SubSeq(s, i + 1, Len(s)))

\* str.splitlines(): the lines of a text, without their "\n"
splitlines(s) == IF s = <<>> THEN <<>> ELSE SplitAt(s, IndexOf(s, "\n", 1))

\* str.lower()
UpperCase == <<"A","B","C","D","E","F","G","H","I","J","K","L","M","N","O","P","Q","R","S","T","U","V","W","X","Y","Z">>
LowerCase == <<"a","b","c","d","e","f","g","h","i","j","k","l","m","n","o","p","q","r","s","t","u","v","w","x","y","z">>
LowerTable ==
    [c \in {UpperCase[i] : i \in 1..Len(UpperCase)} |->
        LowerCase[CHOOSE i \in 1..Len(UpperCase) : UpperCase[i] = c]]
LowerOf(c) == IF c \in DOMAIN LowerTable THEN LowerTable[c] ELSE c
lower(s) == [i \in 1..Len(s) |-> LowerOf(s[i])]

\* k in l
Contains(l, k) ==
    \E i \in 1..(Len(l) - Len(k) + 1) : SubSeq(l, i, i + Len(k) - 1) = k

CRITICAL_KEYS == {<<"i","n","t","e","r","f","a","c","e"," ">>,
                  <<"a","c","c","e","s","s","-","l","i","s","t">>,
                  <<"a","c","l"," ">>,
                  <<"r","o","u","t","e","-","m","a","p">>,
                  <<"i","p"," ","a","c","c","e","s","s">>}
WARN_KEYS == {<<"h","o","s","t","n","a","m","e">>, <<"b","a","n","n","e","r">>}

\* mutant: the loop over WARN_KEYS runs first
classify_severity_WarnFirst(diff_lines) ==
    IF \E n \in 1..Len(diff_lines) :
          \E k \in WARN_KEYS : Contains(lower(diff_lines[n]), k)
    THEN "warn"
    ELSE IF \E n \in 1..Len(diff_lines) :
               \E k \in CRITICAL_KEYS : Contains(lower(diff_lines[n]), k)
         THEN "critical"
         ELSE "info"

\* classify_severity(diff_lines)
classify_severity(diff_lines) ==
    IF \E n \in 1..Len(diff_lines) :
          \E k \in CRITICAL_KEYS : Contains(lower(diff_lines[n]), k)
    THEN "critical"
    ELSE IF \E n \in 1..Len(diff_lines) :
               \E k \in WARN_KEYS : Contains(lower(diff_lines[n]), k)
         THEN "warn"
         ELSE "info"

(* difflib.SequenceMatcher(None, a, b) on lists of lines; indices are Python's:   *)
(* 0-based, ranges half-open, a[i] is the model's a[i + 1].                       *)

RECURSIVE MatchLen(_, _, _, _, _, _)
\* length of the common run of a and b starting at a[i], b[j] inside [i, ahi), [j, bhi)
MatchLen(a, b, i, j, ahi, bhi) ==
    IF i < ahi /\ j < bhi /\ a[i + 1] = b[j + 1]
    THEN 1 + MatchLen(a, b, i + 1, j + 1, ahi, bhi)
    ELSE 0

\* the order in which find_longest_match prefers block x to block y: longer,
\* then starting earlier in a, then starting earlier in b
Better(x, y) == \/ x[3] > y[3]
                \/ x[3] = y[3] /\ x[1] < y[1]
                \/ x[3] = y[3] /\ x[1] = y[1] /\ x[2] <= y[2]

BestOf(cand) == CHOOSE x \in cand : \A y \in cand : Better(x, y)

\* find_longest_match(alo, ahi, blo, bhi) without junk: <<i, j, size>> of a longest
\* matching block, <<alo, blo, 0>> when no line matches
find_longest_match(a, b, alo, ahi, blo, bhi) ==
    BestOf({<<alo, blo, 0>>} \cup
           {<<i, j, MatchLen(a, b, i, j, ahi, bhi)>> :
               i \in alo..(ahi - 1), j \in blo..(bhi - 1)})

RECURSIVE MatchingBlocks(_, _, _, _, _, _)
\* the blocks left of the longest block m, m itself, and the blocks right of it
AroundBlock(a, b, alo, ahi, blo, bhi, m) ==
    IF m[3] = 0 THEN <<>>
    ELSE (IF alo < m[1] /\ blo < m[2]
          THEN MatchingBlocks(a, b, alo, m[1], blo, m[2]) ELSE <<>>)
         \o <<m>>
         \o (IF m[1] + m[3] < ahi /\ m[2] + m[3] < bhi
             THEN MatchingBlocks(a, b, m[1] + m[3], ahi, m[2] + m[3], bhi) ELSE <<>>)

\* get_matching_blocks: the non-empty blocks inside the given ranges, in order
MatchingBlocks(a, b, alo, ahi, blo, bhi) ==
    AroundBlock(a, b, alo, ahi, blo, bhi, find_longest_match(a, b, alo, ahi, blo, bhi))

RECURSIVE MergeAdjacent(_)
\* get_matching_blocks collapses adjacent blocks into one
MergeTwo(x, y, rest) ==
    IF x[1] + x[3] = y[1] /\ x[2] + x[3] = y[2]
    THEN MergeAdjacent(<<<<x[1], x[2], x[3] + y[3]>>>> \o rest)
    ELSE <<x>> \o MergeAdjacent(<<y>> \o rest)

MergeAdjacent(blocks) ==
    IF Len(blocks) < 2 THEN blocks
    ELSE MergeTwo(blocks[1], blocks[2], SubSeq(blocks, 3, Len(blocks)))

get_matching_blocks(a, b) ==
    MergeAdjacent(MatchingBlocks(a, b, 0, Len(a), 0, Len(b))) \o <<<<Len(a), Len(b), 0>>>>

RECURSIVE Opcodes(_, _, _)
\* get_opcodes at position (i, j) before the block <<ai, bj, size>>
OpcodesAt(i, j, ai, bj, size, rest) ==
    (IF i < ai /\ j < bj
     THEN <<[tag |-> "replace", i1 |-> i, i2 |-> ai, j1 |-> j, j2 |-> bj]>>
     ELSE IF i < ai
     THEN <<[tag |-> "delete", i1 |-> i, i2 |-> ai, j1 |-> j, j2 |-> bj]>>
     ELSE IF j < bj
     THEN <<[tag |-> "insert", i1 |-> i, i2 |-> ai, j1 |-> j, j2 |-> bj]>>
     ELSE <<>>)
    \o (IF size > 0
        THEN <<[tag |-> "equal", i1 |-> ai, i2 |-> ai + size, j1 |-> bj, j2 |-> bj + size]>>
        ELSE <<>>)
    \o Opcodes(rest, ai + size, bj + size)

\* get_opcodes: walk the matching blocks from position (i, j)
Opcodes(blocks, i, j) ==
    IF blocks = <<>> THEN <<>>
    ELSE OpcodesAt(i, j, blocks[1][1], blocks[1][2], blocks[1][3], Tail(blocks))

get_opcodes(a, b) == Opcodes(get_matching_blocks(a, b), 0, 0)

\* unified_diff's default number of context lines
ContextLines == 3

Max(x, y) == IF x > y THEN x ELSE y

\* get_grouped_opcodes(n) cuts a leading "equal" opcode down to its last n lines
TrimFirst(codes) ==
    IF codes # <<>> /\ codes[1].tag = "equal"
    THEN <<[codes[1] EXCEPT !.i1 = Max(codes[1].i1, codes[1].i2 - ContextLines),
                            !.j1 = Max(codes[1].j1, codes[1].j2 - ContextLines)]>>
         \o Tail(codes)
    ELSE codes

\* and a trailing "equal" opcode down to its first n lines
TrimLast(codes) ==
    IF codes # <<>> /\ codes[Len(codes)].tag = "equal"
    THEN SubSeq(codes, 1, Len(codes) - 1)
         \o <<[codes[Len(codes)] EXCEPT
                 !.i2 = Min(codes[Len(codes)].i2, codes[Len(codes)].i1 + ContextLines),
                 !.j2 = Min(codes[Len(codes)].j2, codes[Len(codes)].j1 + ContextLines)]>>
    ELSE codes

\* get_grouped_opcodes(n).  (An inner run of more than 2n equal lines would split
\* the opcodes into several groups; the texts of this model have fewer lines, so
\* there is one group.)
GroupedOpcodes(a, b) == TrimLast(TrimFirst(get_opcodes(a, b)))

Digits == <<"0","1","2","3","4","5","6","7","8","9">>

\* '{}' or '{},{}' of _format_range_unified, for the one-digit numbers of this model
FormatBeginLength(beginning, length) ==
    IF length = 1 THEN <<Digits[beginning + 1]>>
    ELSE <<Digits[beginning + 1], ",", Digits[length + 1]>>

\* _format_range_unified(start, stop)
FormatRange(start, stop) ==
    FormatBeginLength(IF stop = start THEN start ELSE start + 1, stop - start)

RECURSIVE Prefixed(_, _, _, _)
\* the lines s[i1:i2], each with the prefix character
Prefixed(pre, s, i1, i2) ==
    IF i1 >= i2 THEN <<>>
    ELSE <<<<pre>> \o s[i1 + 1]>> \o Prefixed(pre, s, i1 + 1, i2)

\* the lines unified_diff yields for one opcode
OpcodeLines(op, a, b) ==
    IF op.tag = "equal" THEN Prefixed(" ", a, op.i1, op.i2)
    ELSE (IF op.tag \in {"replace", "delete"}
          THEN Prefixed("-", a, op.i1, op.i2) ELSE <<>>)
         \o (IF op.tag \in {"replace", "insert"}
             THEN Prefixed("+", b, op.j1, op.j2) ELSE <<>>)

RECURSIVE HunkLines(_, _, _)
HunkLines(group, a, b) ==
    IF group = <<>> THEN <<>>
    ELSE OpcodeLines(group[1], a, b) \o HunkLines(Tail(group), a, b)

\* the lines unified_diff yields for the group of opcodes: nothing for a group
\* that is one "equal", else the two file headers, the hunk header and the hunk
UnifiedOfGroup(group, a, b) ==
    IF Len(group) = 0 \/ (Len(group) = 1 /\ group[1].tag = "equal") THEN <<>>
    ELSE << <<"-","-","-"," ">>, <<"+","+","+"," ">>,
            <<"@","@"," ","-">> \o FormatRange(group[1].i1, group[Len(group)].i2)
               \o <<" ","+">> \o FormatRange(group[1].j1, group[Len(group)].j2)
               \o <<" ","@","@">> >>
         \o HunkLines(group, a, b)

\* list(difflib.unified_diff(a, b, lineterm=""))
unified_diff(a, b) == UnifiedOfGroup(GroupedOpcodes(a, b), a, b)

\* sum(1 for ln in diff if ln.startswith(c) and not ln.startswith(c c c))
CountMarked(diff, c) ==
    Cardinality({n \in 1..Len(diff) :
                    StartsWith(diff[n], <<c>>) /\ ~StartsWith(diff[n], <<c, c, c>>)})

\* diff.py 58-60 and the dict returned: the counts and the severity of a diff
ResultOfDiff(diff) ==
    [severity |-> classify_severity(diff),
     added |-> CountMarked(diff, "+"),
     removed |-> CountMarked(diff, "-")]

\* diff.py 57-60: the diff of a new text against the baseline's text
DiffResult(base_text, snapshot_text) ==
    ResultOfDiff(unified_diff(splitlines(base_text), splitlines(snapshot_text)))

-----------------------------------------------------------------------------
(* The tables of _SCHEMA_SQL and the SQL statements the handlers run          *)

EmptyDb == [ConfigSnapshot |-> {}, Proposal |-> {}, Baseline |-> {},
            BaselineHistory |-> {}, DeviationEvent |-> {}]

\* INTEGER PRIMARY KEY without AUTOINCREMENT: the new rowid is max(rowid)+1
NextId(T) == SetMax({r.id : r \in T}) + 1

NullUser == <<>>
NullTime == 0

\* mutant: a text already stored for the device is not stored again
InsertSnapshot_Dedup(d, device_id, text, sha) ==
    IF \E x \in d.ConfigSnapshot : x.device_id = device_id /\ x.sha256 = sha
    THEN d
    ELSE [d EXCEPT !.ConfigSnapshot = @ \cup
            {[id |-> NextId(d.ConfigSnapshot), device_id |-> device_id,
              text |-> text, sha256 |-> sha]}]

\* mutant: the new snapshot takes the place of the device's stored snapshots
InsertSnapshot_Replace(d, device_id, text, sha) ==
    [d EXCEPT !.ConfigSnapshot = {x \in @ : x.device_id # device_id} \cup
        {[id |-> NextId(d.ConfigSnapshot), device_id |-> device_id,
          text |-> text, sha256 |-> sha]}]

\* INSERT INTO ConfigSnapshot (device_id, text, sha256)
InsertSnapshot(d, device_id, text, sha) ==
    [d EXCEPT !.ConfigSnapshot = @ \cup
        {[id |-> NextId(d.ConfigSnapshot), device_id |-> device_id,
          text |-> text, sha256 |-> sha]}]

\* mutant: the proposal row does not refer to the snapshot just inserted
InsertProposal_NoRef(d, device_id, snapshot_id, comment, user) ==
    [d EXCEPT !.Proposal = @ \cup
        {[id |-> NextId(d.Proposal), device_id |-> device_id,
          snapshot_id |-> 0, comment |-> comment, proposed_by |-> user,
          status |-> "pending", decided_by |-> NullUser, decided_at |-> NullTime]}]

\* INSERT INTO Proposal (device_id, snapshot_id, comment, proposed_by):
\* status defaults to 'pending', decided_by and decided_at to NULL
InsertProposal(d, device_id, snapshot_id, comment, user) ==
    [d EXCEPT !.Proposal = @ \cup
        {[id |-> NextId(d.Proposal), device_id |-> device_id,
          snapshot_id |-> snapshot_id, comment |-> comment, proposed_by |-> user,
          status |-> "pending", decided_by |-> NullUser, decided_at |-> NullTime]}]

\* mutant: the duplicate check looks at the hash alone, whatever the device
SelectExisting_AnyDevice(d, device_id, sha) ==
    {s \in d.ConfigSnapshot : s.sha256 = sha}

\* mutant: the duplicate check looks only at snapshots that a proposal refers to
SelectExisting_Proposed(d, device_id, sha) ==
    {s \in d.ConfigSnapshot :
        /\ s.device_id = device_id /\ s.sha256 = sha
        /\ \E r \in d.Proposal : r.snapshot_id = s.id}

\* SELECT id FROM ConfigSnapshot WHERE device_id=? AND sha256=?
SelectExisting(d, device_id, sha) ==
    {s \in d.ConfigSnapshot : s.device_id = device_id /\ s.sha256 = sha}

\* SELECT * FROM Proposal WHERE id=?
SelectProposal(d, proposal_id) == {r \in d.Proposal : r.id = proposal_id}

\* mutant: the UPDATE has no WHERE clause
UpdateProposal_NoWhere(d, proposal_id, status, user, decided_at) ==
    [d EXCEPT !.Proposal =
        {[r EXCEPT !.status = status, !.decided_by = user,
                   !.decided_at = decided_at] : r \in @}]

\* mutant: the UPDATE sets the status alone
UpdateProposal_StatusOnly(d, proposal_id, status, user, decided_at) ==
    [d EXCEPT !.Proposal =
        {IF r.id = proposal_id THEN [r EXCEPT !.status = status] ELSE r : r \in @}]

\* UPDATE Proposal SET status=?, decided_by=?, decided_at=? WHERE id=?
UpdateProposal(d, proposal_id, status, user, decided_at) ==
    [d EXCEPT !.Proposal =
        {IF r.id = proposal_id
         THEN [r EXCEPT !.status = status, !.decided_by = user,
                        !.decided_at = decided_at]
         ELSE r : r \in @}]

\* mutant: the SELECT has no WHERE clause
SelectBaseline_AnyDevice(d, device_id) == d.Baseline

\* SELECT * FROM Baseline WHERE device_id=?
SelectBaseline(d, device_id) == {b \in d.Baseline : b.device_id = device_id}

\* INSERT INTO BaselineHistory (device_id, snapshot_id, sha256)
InsertHistory(d, device_id, snapshot_id, sha) ==
    [d EXCEPT !.BaselineHistory = @ \cup
        {[id |-> NextId(d.BaselineHistory), device_id |-> device_id,
          snapshot_id |-> snapshot_id, sha256 |-> sha]}]

\* mutant: the DELETE has no WHERE clause
DeleteBaseline_AnyDevice(d, device_id) == [d EXCEPT !.Baseline = {}]

\* DELETE FROM Baseline WHERE device_id=?
DeleteBaseline(d, device_id) ==
    [d EXCEPT !.Baseline = {b \in @ : b.device_id # device_id}]

\* Baseline.device_id PRIMARY KEY, trigger baseline_singleton (BEFORE INSERT,
\* RAISE(ABORT) when a row of the device exists) and snapshot_id UNIQUE: whether
\* an INSERT INTO Baseline of this row is refused
BaselineInsertAborts(d, device_id, snapshot_id) ==
    \E b \in d.Baseline : b.device_id = device_id \/ b.snapshot_id = snapshot_id

\* INSERT INTO Baseline (device_id, snapshot_id, sha256, set_by), when not refused
InsertBaseline(d, device_id, snapshot_id, sha, user) ==
    [d EXCEPT !.Baseline = @ \cup
        {[device_id |-> device_id, snapshot_id |-> snapshot_id,
          sha256 |-> sha, set_by |-> user]}]

\* SELECT sha256 FROM ConfigSnapshot WHERE id=?
SnapshotById(d, snapshot_id) == {s \in d.ConfigSnapshot : s.id = snapshot_id}

\* INSERT INTO DeviationEvent (device_id, snapshot_id, severity, diff_stats)
InsertDeviationEvent(d, device_id, snapshot_id, severity, added, removed) ==
    [d EXCEPT !.DeviationEvent = @ \cup
        {[id |-> NextId(d.DeviationEvent), device_id |-> device_id,
          snapshot_id |-> snapshot_id, severity |-> severity,
          diff_stats |-> [added |-> added, removed |-> removed]]}]

\* mutant: the outgoing baseline is deleted without being archived
ArchiveAndDelete_NoArchive(d, bl, k) == DeleteBaseline(d, bl.device_id)

\* routes.py 135-141, the first k of: archive the device's current baseline (if
\* any) in BaselineHistory; delete it
ArchiveAndDelete(d, bl, k) ==
    IF k = 1 THEN InsertHistory(d, bl.device_id, bl.snapshot_id, bl.sha256)
    ELSE DeleteBaseline(InsertHistory(d, bl.device_id, bl.snapshot_id, bl.sha256),
                        bl.device_id)

promote_prefix(d, prop, k) ==
    IF SelectBaseline(d, prop.device_id) = {} \/ k = 0 THEN d
    ELSE ArchiveAndDelete(d, CHOOSE b \in SelectBaseline(d, prop.device_id) : TRUE, k)

\* routes.py 143-147 on d2, the tables after the archive and the delete: the
\* INSERT INTO Baseline raises when the schema refuses the row (and the read of
\* snapshot_row["sha256"] when the snapshot is missing)
InsertPromoted(d2, prop, user, snapshot_row) ==
    IF snapshot_row = {} \/ BaselineInsertAborts(d2, prop.device_id, prop.snapshot_id)
    THEN [ok |-> FALSE, db |-> d2]
    ELSE [ok |-> TRUE,
          db |-> InsertBaseline(d2, prop.device_id, prop.snapshot_id,
                                (CHOOSE s \in snapshot_row : TRUE).sha256, user)]

\* mutant: the new Baseline row is added next to the old one, which is neither
\* archived nor deleted, on a table that accepts it
promote_append(d, prop, user) ==
    [ok |-> TRUE,
     db |-> InsertBaseline(d, prop.device_id, prop.snapshot_id,
                           (CHOOSE s \in SnapshotById(d, prop.snapshot_id) : TRUE).sha256,
                           user)]

\* routes.py 131-147: archive and delete the current baseline, then insert the
\* proposal's snapshot as the new one; ok is FALSE when the INSERT raises
promote(d, prop, user) ==
    InsertPromoted(promote_prefix(d, prop, 2), prop, user,
                   SnapshotById(d, prop.snapshot_id))

\* mutant: every statement is committed as it runs (autocommit), so a connection
\* that goes away leaves what it has written
Rollback_Keep(d, w) == w

\* what becomes of the working copy when the connection goes away without
\* conn.commit(): SQLite rolls the open transaction back
Rollback(d, w) == d

-----------------------------------------------------------------------------
(* Per-request state *)

NoProp == [id |-> 0, device_id |-> 0, snapshot_id |-> 0, comment |-> <<>>,
           proposed_by |-> NullUser, status |-> "none", decided_by |-> NullUser,
           decided_at |-> NullTime]

NoResult == [severity |-> "", added |-> 0, removed |-> 0]

NoLoc == [device_id |-> 0, text |-> <<>>, comment |-> <<>>, user |-> NullUser,
          sha |-> 0, snapshot_id |-> 0, proposal_id |-> 0, status |-> "none",
          prop |-> NoProp, result |-> NoResult, diff_lines |-> <<>>]

\* the JSON body of a response (the fields a handler does not send are empty)
NoBody == [id |-> 0, status |-> "", severity |-> "", added |-> 0, removed |-> 0,
           snapshot_id |-> 0, rows |-> <<>>]

\* resp is the response that the step just taken sends, and the request (to) it
\* answers; NoResp when there is none.  A response is delivered before the next
\* step of any request is looked at.
NoResp == [to |-> NoOwner, code |-> 0, error |-> "", body |-> NoBody]

Error(code, msg) == [to |-> NoOwner, code |-> code, error |-> msg, body |-> NoBody]
Ok(code, body) == [to |-> NoOwner, code |-> code, error |-> "", body |-> body]

\* rows being inserted into ConfigSnapshot by requests that have not committed yet
InsertingPcs == {"p_insert_snapshot", "p_insert_proposal", "p_commit",
                 "r_insert", "r_diff", "r_commit"}
RoomForSnapshot ==
    Cardinality(db.ConfigSnapshot)
      + Cardinality({q \in Procs : pc[q] \in InsertingPcs}) < MaxSnapshots

\* request p is at the place named and no response is waiting to be delivered
At(p, place) == resp = NoResp /\ pc[p] = place

\* the request ends with this response
Finish(p, r) ==
    /\ pc' = [pc EXCEPT ![p] = "idle"]
    /\ loc' = [loc EXCEPT ![p] = NoLoc]
    /\ resp' = [r EXCEPT !.to = p]

Init ==
    /\ db = EmptyDb
    /\ wdb = EmptyDb
    /\ lock = NoOwner
    /\ pc = [p \in Procs |-> "idle"]
    /\ loc = [p \in Procs |-> NoLoc]
    /\ resp = NoResp

-----------------------------------------------------------------------------
(* create_proposal (routes.py 40-77) *)

\* lines 42-60: argument checks, _current_user, the duplicate check (a SELECT in
\* autocommit mode, on the committed state)
ProposeCheck(p, device_id, text, comment, cred) ==
    /\ At(p, "idle")
    /\ UNCHANGED <<db, wdb, lock>>
    /\ IF text = EmptyText
       THEN Finish(p, Error(400, "'snapshot' text required"))
       ELSE LET user == _current_user(cred)
                sha == _sha(text)
            IN IF user = Unauthenticated
               THEN Finish(p, Error(403, "User not authenticated"))
               ELSE IF SelectExisting(db, device_id, sha) # {}
               THEN Finish(p, Error(409, "identical snapshot already exists"))
               ELSE /\ RoomForSnapshot
                    /\ pc' = [pc EXCEPT ![p] = "p_insert_snapshot"]
                    /\ loc' = [loc EXCEPT ![p] =
                          [NoLoc EXCEPT !.device_id = device_id, !.text = text,
                                        !.comment = comment, !.user = user,
                                        !.sha = sha]]
                    /\ resp' = NoResp

\* lines 63-67: the first INSERT opens the write transaction (takes the write
\* lock); cur.lastrowid is the new snapshot's id
ProposeInsertSnapshot(p) ==
    /\ At(p, "p_insert_snapshot")
    /\ lock = NoOwner
    /\ lock' = p
    /\ wdb' = InsertSnapshot(db, loc[p].device_id, loc[p].text, loc[p].sha)
    /\ loc' = [loc EXCEPT ![p].snapshot_id = NextId(db.ConfigSnapshot)]
    /\ pc' = [pc EXCEPT ![p] = "p_insert_proposal"]
    /\ resp' = NoResp /\ UNCHANGED db

\* lines 69-74
ProposeInsertProposal(p) ==
    /\ At(p, "p_insert_proposal")
    /\ lock = p
    /\ wdb' = InsertProposal(wdb, loc[p].device_id, loc[p].snapshot_id,
                             loc[p].comment, loc[p].user)
    /\ loc' = [loc EXCEPT ![p].proposal_id = NextId(wdb.Proposal)]
    /\ pc' = [pc EXCEPT ![p] = "p_commit"]
    /\ resp' = NoResp /\ UNCHANGED <<db, lock>>

\* lines 75-77
ProposeCommit(p) ==
    /\ At(p, "p_commit")
    /\ lock = p
    /\ db' = wdb
    /\ wdb' = wdb
    /\ lock' = NoOwner
    /\ Finish(p, Ok(201, [NoBody EXCEPT !.id = loc[p].proposal_id, !.status = "pending"]))

-----------------------------------------------------------------------------
(* decide_proposal (routes.py 103-150), the decision operation.  The actions   *)
(* below are the function's body, whoever calls it; HttpPutProposal further     *)
(* down is the PUT request that the blueprint's routes dispatch.                *)

\* mutant: the status check is missing
IsPending_Always(row) == TRUE

\* line 116: the proposal can still be decided
IsPending(row) == row.status = "pending"

\* mutant: the self-decision check is missing
IsSelfDecision_Never(row, user) == FALSE

\* line 119: the actor is the proposal's proposer
IsSelfDecision(row, user) == row.proposed_by = user

\* mutant: the proposer check comes before the status check
DecideRead_ProposerFirst(p, proposal_id, action, cred) ==
    /\ At(p, "idle")
    /\ UNCHANGED <<db, wdb, lock>>
    /\ IF action \notin {"approve", "reject"}
       THEN Finish(p, Error(400, "action must be 'approve' or 'reject'"))
       ELSE LET user == _current_user(cred)
                prop == SelectProposal(db, proposal_id)
            IN IF user = Unauthenticated
               THEN Finish(p, Error(403, "User not authenticated"))
               ELSE IF prop = {}
               THEN Finish(p, Error(404, "Proposal not found"))
               ELSE LET row == CHOOSE r \in prop : TRUE
                    IN IF IsSelfDecision(row, user)
                       THEN Finish(p, Error(403, "Proposer cannot self-approve/reject"))
                       ELSE IF ~IsPending(row)
                       THEN Finish(p, Error(400, "Proposal already decided"))
                       ELSE /\ pc' = [pc EXCEPT ![p] = "d_update"]
                            /\ loc' = [loc EXCEPT ![p] =
                                  [NoLoc EXCEPT !.proposal_id = proposal_id,
                                     !.user = user, !.prop = row,
                                     !.status = IF action = "approve"
                                                THEN "approved" ELSE "rejected"]]
                            /\ resp' = NoResp

\* lines 104-124: argument checks, _current_user, the SELECT of the proposal (in
\* autocommit mode, on the committed state) and the checks on its row
DecideRead(p, proposal_id, action, cred) ==
    /\ At(p, "idle")
    /\ UNCHANGED <<db, wdb, lock>>
    /\ IF action \notin {"approve", "reject"}
       THEN Finish(p, Error(400, "action must be 'approve' or 'reject'"))
       ELSE LET user == _current_user(cred)
                prop == SelectProposal(db, proposal_id)
            IN IF user = Unauthenticated
               THEN Finish(p, Error(403, "User not authenticated"))
               ELSE IF prop = {}
               THEN Finish(p, Error(404, "Proposal not found"))
               ELSE LET row == CHOOSE r \in prop : TRUE
                    IN IF ~IsPending(row)
                       THEN Finish(p, Error(400, "Proposal already decided"))
                       ELSE IF IsSelfDecision(row, user)
                       THEN Finish(p, Error(403, "Proposer cannot self-approve/reject"))
                       ELSE /\ pc' = [pc EXCEPT ![p] = "d_update"]
                            /\ loc' = [loc EXCEPT ![p] =
                                  [NoLoc EXCEPT !.proposal_id = proposal_id,
                                     !.user = user, !.prop = row,
                                     !.status = IF action = "approve"
                                                THEN "approved" ELSE "rejected"]]
                            /\ resp' = NoResp

\* lines 124-129: decided_at is the time now; the UPDATE opens the write
\* transaction
DecideUpdate(p, now) ==
    /\ At(p, "d_update")
    /\ lock = NoOwner
    /\ lock' = p
    /\ wdb' = UpdateProposal(db, loc[p].proposal_id, loc[p].status, loc[p].user, now)
    /\ pc' = [pc EXCEPT ![p] = IF loc[p].status = "approved"
                                THEN "d_promote" ELSE "d_commit"]
    /\ resp' = NoResp /\ UNCHANGED <<db, loc>>

\* lines 131-147; an INSERT that raises ends the request with the transaction
\* uncommitted
Promoted(p, r) ==
    IF r.ok
    THEN /\ wdb' = r.db
         /\ pc' = [pc EXCEPT ![p] = "d_commit"]
         /\ resp' = NoResp /\ UNCHANGED <<db, lock, loc>>
    ELSE /\ db' = Rollback(db, r.db)
         /\ wdb' = db'
         /\ lock' = NoOwner
         /\ Finish(p, Error(500, "internal error"))

DecidePromote(p) ==
    /\ At(p, "d_promote")
    /\ lock = p
    /\ Promoted(p, promote(wdb, loc[p].prop, loc[p].user))

\* lines 148-150
DecideCommit(p) ==
    /\ At(p, "d_commit")
    /\ lock = p
    /\ db' = wdb
    /\ wdb' = wdb
    /\ lock' = NoOwner
    /\ Finish(p, Ok(200, [NoBody EXCEPT !.status = loc[p].status]))

-----------------------------------------------------------------------------
(* The blueprint's routes (the @bp.route decorators of routes.py)             *)

RuleBaseline == "/devices/<int:device_id>/baseline"
RuleDeviceProposals == "/devices/<int:device_id>/baseline/proposals"
RuleProposals == "/baseline/proposals"
RuleProposal == "/baseline/proposals/<int:proposal_id>"
RuleDeviations == "/devices/<int:device_id>/deviations"

\* the rules in the order the blueprint records them: a decorator registers the
\* function that follows it, and of stacked decorators the lowest comes first
\* (lines 80-83 register get_proposals under both of its decorators)
url_map == <<
    [method |-> "GET",  rule |-> RuleBaseline,        endpoint |-> "get_device_baseline"],
    [method |-> "POST", rule |-> RuleDeviceProposals, endpoint |-> "create_proposal"],
    [method |-> "GET",  rule |-> RuleProposals,       endpoint |-> "get_proposals"],
    [method |-> "PUT",  rule |-> RuleProposal,        endpoint |-> "get_proposals"],
    [method |-> "PUT",  rule |-> RuleProposal,        endpoint |-> "decide_proposal"],
    [method |-> "GET",  rule |-> RuleProposals,       endpoint |-> "list_proposals"],
    [method |-> "GET",  rule |-> RuleDeviations,      endpoint |-> "get_device_deviations"] >>

\* the URL variables of a rule, passed to the view function as keyword arguments
RuleArgs(rule) ==
    IF rule \in {RuleBaseline, RuleDeviceProposals, RuleDeviations} THEN {"device_id"}
    ELSE IF rule = RuleProposal THEN {"proposal_id"} ELSE {}

\* the parameters of the view functions
ViewParams(endpoint) ==
    IF endpoint \in {"get_device_baseline", "create_proposal", "get_device_deviations"}
    THEN {"device_id"}
    ELSE IF endpoint = "decide_proposal" THEN {"proposal_id"} ELSE {}

\* the endpoint a request is dispatched to: of the rules that match the path and
\* the method, the one registered first ("" when none matches)
Dispatch(method, rule) ==
    LET hits == {i \in 1..Len(url_map) :
                    url_map[i].method = method /\ url_map[i].rule = rule}
    IN IF hits = {} THEN ""
       ELSE url_map[CHOOSE i \in hits : \A j \in hits : i <= j].endpoint

\* PUT /baseline/proposals/{id} with body {action}: the view function the request
\* is dispatched to is called with the rule's URL variables; a function that has
\* no such parameter raises TypeError, which the framework answers with 500
HttpPutProposal(p, proposal_id, action, cred) ==
    LET endpoint == Dispatch("PUT", RuleProposal)
    IN IF endpoint = "decide_proposal"
       THEN DecideRead(p, proposal_id, action, cred)
       ELSE /\ At(p, "idle")
            /\ endpoint # ""
            /\ ~(RuleArgs(RuleProposal) \subseteq ViewParams(endpoint))
            /\ Finish(p, Error(500, "TypeError: unexpected keyword argument"))
            /\ UNCHANGED <<db, wdb, lock>>

\* GET /devices/{device_id}/baseline (routes.py 25-36): the response on the
\* committed state d
get_device_baseline(d, device_id) ==
    LET rows == {<<b, s>> \in d.Baseline \X d.ConfigSnapshot :
                    s.id = b.snapshot_id /\ b.device_id = device_id}
    IN IF rows = {} THEN [code |-> 404, row |-> <<>>]
       ELSE LET r == CHOOSE x \in rows : TRUE
            IN [code |-> 200,
                row |-> <<[device_id |-> r[1].device_id, snapshot_id |-> r[1].snapshot_id,
                           sha256 |-> r[1].sha256, set_by |-> r[1].set_by,
                           text |-> r[2].text]>>]

-----------------------------------------------------------------------------
(* diff_and_record (diff.py 28-70) *)

\* the call, up to line 36
RecordCall(p, device_id, text) ==
    /\ At(p, "idle")
    /\ pc' = [pc EXCEPT ![p] = "r_insert"]
    /\ loc' = [loc EXCEPT ![p] =
          [NoLoc EXCEPT !.device_id = device_id, !.text = text, !.sha = _sha(text)]]
    /\ resp' = NoResp
    /\ UNCHANGED <<db, wdb, lock>>

\* the call, while the model has room for its snapshot
RecordBegin(p, device_id, text) ==
    /\ RoomForSnapshot
    /\ RecordCall(p, device_id, text)

\* lines 37-41: the INSERT opens the write transaction
RecordInsert(p) ==
    /\ At(p, "r_insert")
    /\ lock = NoOwner
    /\ lock' = p
    /\ wdb' = InsertSnapshot(db, loc[p].device_id, loc[p].text, loc[p].sha)
    /\ loc' = [loc EXCEPT ![p].snapshot_id = NextId(db.ConfigSnapshot)]
    /\ pc' = [pc EXCEPT ![p] = "r_diff"]
    /\ resp' = NoResp /\ UNCHANGED db

\* mutant: the DeviationEvent is inserted whatever the severity
Deviation_Always(p, r) ==
    /\ wdb' = InsertDeviationEvent(wdb, loc[p].device_id, loc[p].snapshot_id,
                                   r.severity, r.added, r.removed)
    /\ loc' = [loc EXCEPT ![p].result = r]
    /\ pc' = [pc EXCEPT ![p] = "r_commit"]
    /\ resp' = NoResp /\ UNCHANGED <<db, lock>>

\* lines 53-67: r is the result of the diff against the baseline's text; a
\* DeviationEvent is inserted unless the severity is info
Deviation(p, r) ==
    /\ wdb' = IF r.severity # "info"
              THEN InsertDeviationEvent(wdb, loc[p].device_id, loc[p].snapshot_id,
                                        r.severity, r.added, r.removed)
              ELSE wdb
    /\ loc' = [loc EXCEPT ![p].result = r]
    /\ pc' = [pc EXCEPT ![p] = "r_commit"]
    /\ resp' = NoResp /\ UNCHANGED <<db, lock>>

\* the text of the snapshot the baseline row bl names
BaseText(d, bl) == (CHOOSE s \in SnapshotById(d, bl.snapshot_id) : TRUE).text

\* lines 44-67: without a baseline commit and return; else diff against the
\* baseline's text
RecordDiff(p) ==
    /\ At(p, "r_diff")
    /\ lock = p
    /\ IF SelectBaseline(wdb, loc[p].device_id) = {}
       THEN /\ db' = wdb
            /\ wdb' = wdb
            /\ lock' = NoOwner
            /\ Finish(p, Ok(200, [NoBody EXCEPT !.severity = "info",
                                     !.snapshot_id = loc[p].snapshot_id]))
       ELSE Deviation(p, DiffResult(
                BaseText(wdb, CHOOSE b \in SelectBaseline(wdb, loc[p].device_id) : TRUE),
                loc[p].text))

\* lines 68-70
RecordCommit(p) ==
    /\ At(p, "r_commit")
    /\ lock = p
    /\ db' = wdb
    /\ wdb' = wdb
    /\ lock' = NoOwner
    /\ Finish(p, Ok(200, [NoBody EXCEPT !.severity = loc[p].result.severity,
                             !.added = loc[p].result.added,
                             !.removed = loc[p].result.removed,
                             !.snapshot_id = loc[p].snapshot_id]))

-----------------------------------------------------------------------------
(* Failures *)

LockingPcs == {"p_insert_snapshot", "d_update", "r_insert"}

\* sqlite3.connect(..., timeout=30): a statement that needs the write lock while
\* another connection holds it waits, and raises OperationalError ("database is
\* locked") when the timeout expires; nothing was written
BusyTimeout(p) ==
    /\ resp = NoResp
    /\ pc[p] \in LockingPcs
    /\ lock \notin {NoOwner, p}
    /\ Finish(p, Error(500, "database is locked"))
    /\ UNCHANGED <<db, wdb, lock>>

\* the request dies (exception, process crash) before conn.commit(): its
\* connection goes away and the open transaction, if any, is discarded
Crash(p) ==
    /\ resp = NoResp
    /\ pc[p] # "idle"
    /\ IF lock = p
       THEN \E k \in 0..2 :
               \* inside lines 131-147 the failure can come after any statement
               /\ db' = Rollback(db, IF pc[p] = "d_promote"
                                     THEN promote_prefix(wdb, loc[p].prop, k) ELSE wdb)
               /\ wdb' = db'
               /\ lock' = NoOwner
       ELSE UNCHANGED <<db, wdb, lock>>
    /\ Finish(p, Error(500, "internal error"))

-----------------------------------------------------------------------------

\* one step of one request
Step ==
    \E p \in Procs :
        \/ \E in \in ProposeInputs, comment \in Comments :
                ProposeCheck(p, in[1], in[2], comment, in[3])
        \/ ProposeInsertSnapshot(p)
        \/ ProposeInsertProposal(p)
        \/ ProposeCommit(p)
        \/ \E in \in DecideInputs : DecideRead(p, in[1], in[2], in[3])
        \/ \E proposal_id \in 1..MaxSnapshots, action \in Actions, cred \in Creds :
                HttpPutProposal(p, proposal_id, action, cred)
        \/ \E now \in Times : DecideUpdate(p, now)
        \/ DecidePromote(p)
        \/ DecideCommit(p)
        \/ \E device_id \in Devices, text \in Texts : RecordBegin(p, device_id, text)
        \/ RecordInsert(p)
        \/ RecordDiff(p)
        \/ RecordCommit(p)
        \/ BusyTimeout(p)
        \/ Crash(p)

\* the response of the step before is on its way to the client
Deliver ==
    /\ resp # NoResp
    /\ resp' = NoResp
    /\ UNCHANGED <<db, wdb, lock, pc, loc>>

Next == Step \/ Deliver

Spec == Init /\ [][Next]_vars

-----------------------------------------------------------------------------
(* diff_and_record on a device whose baseline is given *)

\* configurations: a hostname, with an interface line before it, with an ntp line
\* after it, and ntp lines followed by a line that begins with "++" or "--"
CfgHost1 == TextA
CfgHost2 == <<"h","o","s","t","n","a","m","e"," ","r","2">>
CfgIfHost1 == <<"i","n","t","e","r","f","a","c","e"," ","l","o","0","\n","h","o","s","t","n","a","m","e"," ","r","1">>
CfgIfHost2 == <<"i","n","t","e","r","f","a","c","e"," ","l","o","0","\n","h","o","s","t","n","a","m","e"," ","r","2">>
CfgHostNtp1 == <<"h","o","s","t","n","a","m","e"," ","r","1","\n","n","t","p"," ","1">>
CfgHostNtp2 == <<"h","o","s","t","n","a","m","e"," ","r","1","\n","n","t","p"," ","2">>
CfgNtp == <<"n","t","p"," ","1">>
CfgNtpPlus == <<"n","t","p"," ","1","\n","+","+","x">>
CfgNtpMinus == <<"n","t","p"," ","1","\n","-","-","y">>
RecordTexts == {CfgHost1, CfgHost2, CfgIfHost1, CfgIfHost2, CfgHostNtp1,
                CfgHostNtp2, CfgNtp, CfgNtpPlus, CfgNtpMinus}

\* the tables after alice has proposed text t for device 1 ...
SeedProposal(t) ==
    InsertProposal(InsertSnapshot(EmptyDb, 1, t, _sha(t)), 1, 1, <<"c">>,
                   _current_user(CredAlice))

\* ... and the token user has approved the proposal
BaselinedDb(t) ==
    promote(UpdateProposal(SeedProposal(t), 1, "approved",
                           _current_user(CredToken), 1),
            CHOOSE r \in SeedProposal(t).Proposal : TRUE,
            _current_user(CredToken)).db

InitRecord ==
    /\ db \in {EmptyDb} \cup {BaselinedDb(t) : t \in RecordTexts}
    /\ wdb = db
    /\ lock = NoOwner
    /\ pc = [p \in Procs |-> "idle"]
    /\ loc = [p \in Procs |-> NoLoc]
    /\ resp = NoResp

NextRecord ==
    \/ \E p \in Procs :
          \/ \E device_id \in Devices, text \in RecordTexts :
                RecordBegin(p, device_id, text)
          \/ RecordInsert(p)
          \/ RecordDiff(p)
          \/ RecordCommit(p)
          \/ BusyTimeout(p)
          \/ Crash(p)
    \/ Deliver

SpecRecord == InitRecord /\ [][NextRecord]_vars

-----------------------------------------------------------------------------
(* classify_severity called on its own (diff.py 15-25) *)

MaxLines == 3

\* lines of a diff: a hostname change, an interface change in lower and in upper
\* case, a line with no keyword
LineHostname == <<"+","h","o","s","t","n","a","m","e"," ","r","2">>
LineInterface == <<"-","i","n","t","e","r","f","a","c","e"," ","l","o","0">>
LineInterfaceUpper == <<"+","I","N","T","E","R","F","A","C","E"," ","L","o","1">>
LinePlain == <<"+","n","t","p"," ","1">>
LinePool == {LineHostname, LineInterface, LineInterfaceUpper, LinePlain}

RECURSIVE ListsUpTo(_, _)
\* the lists of at most n elements of S
ListsUpTo(S, n) ==
    IF n = 0 THEN {<<>>}
    ELSE ListsUpTo(S, n - 1)
           \cup {Append(l, x) : l \in {m \in ListsUpTo(S, n - 1) : Len(m) = n - 1},
                                   x \in S}

LineLists == ListsUpTo(LinePool, MaxLines)

\* the call classify_severity(diff_lines)
ClassifyCall(p, diff_lines) ==
    /\ At(p, "idle")
    /\ pc' = [pc EXCEPT ![p] = "c_classify"]
    /\ loc' = [loc EXCEPT ![p] = [NoLoc EXCEPT !.diff_lines = diff_lines]]
    /\ resp' = NoResp
    /\ UNCHANGED <<db, wdb, lock>>

\* lines 17-25: the value returned (a plain function return: no status code);
\* the caller keeps its list
ClassifyReturn(p) ==
    /\ At(p, "c_classify")
    /\ pc' = [pc EXCEPT ![p] = "idle"]
    /\ resp' = [Ok(0, [NoBody EXCEPT
                         !.severity = classify_severity(loc[p].diff_lines)])
                EXCEPT !.to = p]
    /\ UNCHANGED <<db, wdb, lock, loc>>

NextClassify ==
    \/ \E p \in Procs :
          \/ \E diff_lines \in LineLists : ClassifyCall(p, diff_lines)
          \/ ClassifyReturn(p)
    \/ Deliver

SpecClassify == Init /\ [][NextClassify]_vars

-----------------------------------------------------------------------------
(* get_device_deviations (routes.py 166-173) *)

RECURSIVE OrderByIdAsc(_)
\* mutant: the rows in the order of their ids, oldest first
OrderByIdAsc(T) ==
    IF T = {} THEN <<>>
    ELSE LET r == CHOOSE x \in T : \A y \in T : y.id >= x.id
         IN <<r>> \o OrderByIdAsc(T \ {r})

RECURSIVE OrderByIdDesc(_)
\* ORDER BY id DESC
OrderByIdDesc(T) ==
    IF T = {} THEN <<>>
    ELSE LET r == CHOOSE x \in T : \A y \in T : y.id <= x.id
         IN <<r>> \o OrderByIdDesc(T \ {r})

\* SELECT id, severity, diff_stats, created_at FROM DeviationEvent
\* WHERE device_id=? ORDER BY id DESC, on the committed state d
get_device_deviations(d, device_id) ==
    OrderByIdDesc({[id |-> e.id, severity |-> e.severity, diff_stats |-> e.diff_stats] :
                      e \in {x \in d.DeviationEvent : x.device_id = device_id}})

\* GET /devices/{device_id}/deviations: a read-only connection, one SELECT
GetDeviations(p, device_id) ==
    /\ At(p, "idle")
    /\ Finish(p, Ok(200, [NoBody EXCEPT !.rows = get_device_deviations(db, device_id)]))
    /\ UNCHANGED <<db, wdb, lock>>

-----------------------------------------------------------------------------
(* decide and record on a device that has a baseline and either a pending     *)
(* proposal to replace it or a deviation recorded against it                  *)

\* cap on the number of ConfigSnapshot rows in the behaviours that start from
\* tables with two snapshots
MaxSeededSnapshots == 3

\* the baseline of device 1 is TextA (proposed by alice, approved by the token
\* user) and alice has proposed TextB
SeedPending ==
    InsertProposal(InsertSnapshot(BaselinedDb(TextA), 1, TextB, _sha(TextB)),
                   1, 2, <<"c">>, _current_user(CredAlice))

\* the tables d after a record of text for the device has committed its snapshot
\* and the DeviationEvent of the diff result r
Recorded(d, device_id, text, r) ==
    InsertDeviationEvent(InsertSnapshot(d, device_id, text, _sha(text)),
                         device_id, NextId(d.ConfigSnapshot),
                         r.severity, r.added, r.removed)

\* the baseline of device 1 is TextA and TextB has been recorded for the device
SeedDeviated == Recorded(BaselinedDb(TextA), 1, TextB, DiffResult(TextA, TextB))

SeededTexts == {TextA, TextB, CfgHost2}

RoomForSeededSnapshot ==
    Cardinality(db.ConfigSnapshot)
      + Cardinality({q \in Procs : pc[q] \in InsertingPcs}) < MaxSeededSnapshots

RecordBeginSeeded(p, device_id, text) ==
    /\ RoomForSeededSnapshot
    /\ RecordCall(p, device_id, text)

InitSeeded ==
    /\ db \in {SeedPending, SeedDeviated}
    /\ wdb = db
    /\ lock = NoOwner
    /\ pc = [p \in Procs |-> "idle"]
    /\ loc = [p \in Procs |-> NoLoc]
    /\ resp = NoResp

NextSeeded ==
    \/ \E p \in Procs :
          \/ \E in \in DecideInputs : DecideRead(p, in[1], in[2], in[3])
          \/ \E now \in Times : DecideUpdate(p, now)
          \/ DecidePromote(p)
          \/ DecideCommit(p)
          \/ \E device_id \in Devices, text \in SeededTexts :
                RecordBeginSeeded(p, device_id, text)
          \/ RecordInsert(p)
          \/ RecordDiff(p)
          \/ RecordCommit(p)
          \/ \E device_id \in Devices : GetDeviations(p, device_id)
          \/ BusyTimeout(p)
          \/ Crash(p)
    \/ Deliver

SpecSeeded == InitSeeded /\ [][NextSeeded]_vars

-----------------------------------------------------------------------------
(* decide calls on a proposal made with a bearer token, by requests that       *)
(* carry that token, other tokens or a session                                 *)

\* a bearer token that differs from CredToken's in its last character only, and
\* one that differs in its first
CredTokenTwin == [username |-> <<>>,
                  authorization |-> <<"B","e","a","r","e","r"," ","a","b","c","d","e","f","g","h","i","j","k","l","z">>]
CredTokenOther == [username |-> <<>>,
                   authorization |-> <<"B","e","a","r","e","r"," ","z","b","c","d","e","f","g","h","i","j","k","l","m">>]
ActorCreds == {CredAlice, CredToken, CredTokenTwin, CredTokenOther}

\* the tables after the request that carries CredTokenTwin has proposed TextA for
\* device 1
SeedProposalByTwin ==
    InsertProposal(InsertSnapshot(EmptyDb, 1, TextA, _sha(TextA)), 1, 1, <<"c">>,
                   _current_user(CredTokenTwin))

InitActors ==
    /\ db = SeedProposalByTwin
    /\ wdb = db
    /\ lock = NoOwner
    /\ pc = [p \in Procs |-> "idle"]
    /\ loc = [p \in Procs |-> NoLoc]
    /\ resp = NoResp

NextActors ==
    \/ \E p \in Procs :
          \/ \E proposal_id \in 1..MaxSnapshots, action \in Actions, cred \in ActorCreds :
                DecideRead(p, proposal_id, action, cred)
          \/ \E now \in Times : DecideUpdate(p, now)
          \/ DecidePromote(p)
          \/ DecideCommit(p)
          \/ \E device_id \in Devices, text \in Texts : RecordBegin(p, device_id, text)
          \/ RecordInsert(p)
          \/ RecordDiff(p)
          \/ RecordCommit(p)
          \/ BusyTimeout(p)
          \/ Crash(p)
    \/ Deliver

SpecActors == InitActors /\ [][NextActors]_vars

-----------------------------------------------------------------------------
(* Properties *)

Decided == {"approved", "rejected"}

\* the requests with valid arguments
ValidDecides == (1..MaxSnapshots) \X Actions \X Creds
ValidProposes == Devices \X Texts \X Creds

\* the hash of the snapshot a proposal refers to
ShaOfSnapshot(d, snapshot_id) ==
    (CHOOSE s \in d.ConfigSnapshot : s.id = snapshot_id).sha256

\* the proposal's snapshot is, or has been, the baseline of its device
IsPromoted(d, r) ==
    \E b \in d.Baseline \cup d.BaselineHistory :
        b.device_id = r.device_id /\ b.snapshot_id = r.snapshot_id

\* C1: in every committed state the Baseline table holds at most one row per
\* device, whatever propose, decide and record operations have interleaved.
C1_SingletonBaseline ==
    \A d \in Devices : Cardinality({b \in db.Baseline : b.device_id = d}) <= 1

\* two proposals of one device have both been approved, and the device has one
\* Baseline row
C1_Witness ==
    \E r1, r2 \in db.Proposal :
        /\ r1.id # r2.id /\ r1.device_id = r2.device_id
        /\ r1.status = "approved" /\ r2.status = "approved"
        /\ Cardinality({b \in db.Baseline : b.device_id = r1.device_id}) = 1

\* C2: every proposal that is approved or rejected was decided by somebody other
\* than its proposer.
C2_SeparationOfDuties ==
    \A r \in db.Proposal : r.status \in Decided => r.decided_by # r.proposed_by

C2_Witness ==
    /\ \E r \in db.Proposal : r.status = "approved"
    /\ \E r \in db.Proposal : r.status = "rejected"

\* C3 as claimed: a decide call by the proposal's proposer is answered 403 and
\* changes no row, whatever the action and whatever the proposal's status.
C3_ProposerAlwaysForbidden ==
    [][\A p \in Procs, in \in ValidDecides :
          (/\ DecideRead(p, in[1], in[2], in[3])
           /\ \E r \in db.Proposal :
                 r.id = in[1] /\ r.proposed_by = _current_user(in[3]))
          => (resp'.code = 403 /\ db' = db /\ wdb' = wdb)]_vars

\* C3 amended: a decide call by the proposal's proposer always fails and changes
\* no row, whatever the action: with 403 when the proposal is pending, with 400
\* (already decided) when it is not.
C3_ProposerNeverDecides ==
    [][\A p \in Procs, in \in ValidDecides :
          \A r \in db.Proposal :
             (/\ DecideRead(p, in[1], in[2], in[3])
              /\ r.id = in[1] /\ r.proposed_by = _current_user(in[3]))
             => /\ db' = db /\ wdb' = wdb /\ pc'[p] = "idle" /\ resp'.to = p
                /\ IF r.status = "pending"
                   THEN /\ resp'.code = 403
                        /\ resp'.error = "Proposer cannot self-approve/reject"
                   ELSE /\ resp'.code = 400
                        /\ resp'.error = "Proposal already decided"]_vars

C3_Witness ==
    resp.code = 403 /\ resp.error = "Proposer cannot self-approve/reject"

\* C4: a decide call on a proposal that is approved or rejected, by any actor and
\* with either action, is answered 400 (already decided) and changes no row.
C4_TerminalImmutable ==
    [][\A p \in Procs, in \in ValidDecides :
          (/\ DecideRead(p, in[1], in[2], in[3])
           /\ \E r \in db.Proposal : r.id = in[1] /\ r.status \in Decided)
          => /\ resp'.code = 400 /\ resp'.error = "Proposal already decided"
             /\ resp'.to = p /\ pc'[p] = "idle"
             /\ db' = db /\ wdb' = wdb]_vars

C4_Witness ==
    /\ resp.code = 400 /\ resp.error = "Proposal already decided"
    /\ \E r \in db.Proposal : r.status \in Decided

\* C5 as claimed: the status of a proposal changes only from pending, also when
\* decide calls on it run concurrently.
C5_StatusLeavesOnlyPending ==
    [][\A r \in db.Proposal : \A r2 \in db'.Proposal :
          (r2.id = r.id /\ r2.status # r.status) => r.status = "pending"]_vars

\* C6: a propose is answered 409 and adds nothing when a snapshot with the same
\* hash exists for the device; else (the same text on another device included) it
\* goes on to insert, and its commit answers 201.
C6_DuplicateRejection ==
    [][/\ \A p \in Procs, in \in ValidProposes, c \in Comments :
             ProposeCheck(p, in[1], in[2], c, in[3])
             => IF \E s \in db.ConfigSnapshot :
                      s.device_id = in[1] /\ s.sha256 = _sha(in[2])
                THEN /\ resp'.code = 409 /\ resp'.to = p /\ pc'[p] = "idle"
                     /\ db' = db /\ wdb' = wdb
                ELSE resp' = NoResp /\ pc'[p] = "p_insert_snapshot"
       /\ \A p \in Procs :
             ProposeCommit(p)
             => /\ resp'.code = 201 /\ resp'.to = p
                /\ \E r \in db'.Proposal \ db.Proposal :
                      r.id = resp'.body.id /\ r.device_id = loc[p].device_id]_vars

\* a propose was answered 409 while the same text is proposed for two devices
C6_Witness ==
    /\ resp.code = 409
    /\ \E r1, r2 \in db.Proposal :
          /\ r1.device_id # r2.device_id
          /\ ShaOfSnapshot(db, r1.snapshot_id) = ShaOfSnapshot(db, r2.snapshot_id)

\* C7 as claimed: no two proposals of one device refer to snapshots with the same
\* hash, however propose calls interleave.
C7_UniquePerDevice ==
    \A r1, r2 \in db.Proposal :
        (r1.id # r2.id /\ r1.device_id = r2.device_id)
        => ShaOfSnapshot(db, r1.snapshot_id) # ShaOfSnapshot(db, r2.snapshot_id)

\* C8: a propose of a text that record has stored for the device (a snapshot no
\* proposal refers to) is answered 409 and adds nothing, while record stores a
\* text again however often it is stored already.
C8_RecordedBlocksPropose ==
    [][/\ \A p \in Procs, in \in ValidProposes, c \in Comments :
             (/\ ProposeCheck(p, in[1], in[2], c, in[3])
              /\ \E s \in db.ConfigSnapshot :
                    /\ s.device_id = in[1] /\ s.text = in[2]
                    /\ \A r \in db.Proposal : r.snapshot_id # s.id)
             => /\ resp'.code = 409 /\ resp'.to = p /\ pc'[p] = "idle"
                /\ db' = db /\ wdb' = wdb
       /\ \A p \in Procs :
             RecordInsert(p)
             => \E s \in wdb'.ConfigSnapshot \ db.ConfigSnapshot :
                   s.device_id = loc[p].device_id /\ s.text = loc[p].text
       /\ \A p \in Procs :
             (RecordDiff(p) \/ RecordCommit(p))
             => (resp' # NoResp
                 => /\ resp'.code = 200
                    /\ Cardinality(db'.ConfigSnapshot)
                         = Cardinality(db.ConfigSnapshot) + 1)]_vars

\* a propose was answered 409 though no proposal exists: the device's snapshots,
\* two of the same text, were stored by record
C8_Witness ==
    /\ resp.code = 409
    /\ db.Proposal = {}
    /\ \E s1, s2 \in db.ConfigSnapshot :
          s1.id # s2.id /\ s1.device_id = s2.device_id /\ s1.text = s2.text

C10_PutReachesDecide ==
    [][\A p \in Procs, in \in ValidDecides :
          (/\ HttpPutProposal(p, in[1], "approve", in[3])
           /\ \E r \in db.Proposal :
                 /\ r.id = in[1] /\ r.status = "pending"
                 /\ r.proposed_by # _current_user(in[3]))
          => (resp'.code # 500 /\ pc'[p] = "d_update")]_vars

\* the line contains one of the keywords, whatever the case of its letters
HasKeyword(line, keys) == \E k \in keys : Contains(lower(line), k)

\* C14: when the list given to classify_severity has a line with a critical
\* keyword (in any case of letters), the result is critical, however many
\* hostname/banner lines the list has and wherever they stand in it.
C14_CriticalPrecedence ==
    \A p \in Procs :
        (/\ resp.to = p
         /\ \E n \in 1..Len(loc[p].diff_lines) :
               HasKeyword(loc[p].diff_lines[n], CRITICAL_KEYS))
        => resp.body.severity = "critical"

\* classify_severity has answered critical for two hostname lines followed by an
\* interface line in upper case
C14_Witness ==
    \E p \in Procs :
        /\ resp.to = p /\ resp.body.severity = "critical"
        /\ loc[p].diff_lines = <<LineHostname, LineHostname, LineInterfaceUpper>>

\* request p commits a decision with this status in the step
CommitsDecision(p, status) == DecideCommit(p) /\ loc[p].status = status

\* C11: an approval that commits for a device with a baseline adds one
\* BaselineHistory row, a copy of the outgoing baseline's device_id, snapshot_id
\* and hash; one for a device without baseline adds none; either way the device's
\* Baseline becomes the proposal's snapshot; and no other step touches Baseline or
\* BaselineHistory (so k approvals of a device leave k-1 history rows for it).
C11_HistoryOnReplacement ==
    [][/\ \A p \in Procs :
             CommitsDecision(p, "approved")
             => /\ {b.snapshot_id : b \in SelectBaseline(db', loc[p].prop.device_id)}
                      = {loc[p].prop.snapshot_id}
                /\ \A b \in db.Baseline \cup db'.Baseline :
                      b.device_id # loc[p].prop.device_id
                      => (b \in db.Baseline /\ b \in db'.Baseline)
                /\ db.BaselineHistory \subseteq db'.BaselineHistory
                /\ IF SelectBaseline(db, loc[p].prop.device_id) = {}
                   THEN db'.BaselineHistory = db.BaselineHistory
                   ELSE /\ Cardinality(db'.BaselineHistory)
                             = Cardinality(db.BaselineHistory) + 1
                        /\ \A h \in db'.BaselineHistory \ db.BaselineHistory :
                              \E b \in SelectBaseline(db, loc[p].prop.device_id) :
                                 /\ h.device_id = b.device_id
                                 /\ h.snapshot_id = b.snapshot_id
                                 /\ h.sha256 = b.sha256
       /\ (\A p \in Procs : ~CommitsDecision(p, "approved"))
             => (db'.Baseline = db.Baseline
                 /\ db'.BaselineHistory = db.BaselineHistory)]_vars

\* a second proposal of a device has been approved: the first baseline is the one
\* row of the device's history, the second is the active baseline
C11_Witness ==
    \E b \in db.Baseline, h \in db.BaselineHistory :
        /\ h.device_id = b.device_id /\ h.snapshot_id # b.snapshot_id
        /\ Cardinality({x \in db.BaselineHistory : x.device_id = b.device_id}) = 1
        /\ \A id \in {b.snapshot_id, h.snapshot_id} :
              \E r \in db.Proposal : r.snapshot_id = id /\ r.status = "approved"

\* C12 as claimed: the snapshot of every Baseline row is the snapshot of an
\* approved proposal of the same device, also after concurrent decide calls.
C12_BaselineFromApproved ==
    \A b \in db.Baseline :
        \E r \in db.Proposal :
            /\ r.device_id = b.device_id /\ r.snapshot_id = b.snapshot_id
            /\ r.status = "approved"

\* C13: a reject that commits changes the row of its proposal (status rejected,
\* decided_by the actor, decided_at) and nothing else: no other Proposal row,
\* nothing in Baseline, BaselineHistory, ConfigSnapshot, DeviationEvent.
C13_RejectFrame ==
    [][\A p \in Procs :
          CommitsDecision(p, "rejected")
          => /\ db'.Baseline = db.Baseline
             /\ db'.BaselineHistory = db.BaselineHistory
             /\ db'.ConfigSnapshot = db.ConfigSnapshot
             /\ db'.DeviationEvent = db.DeviationEvent
             /\ {r \in db'.Proposal : r.id # loc[p].proposal_id}
                   = {r \in db.Proposal : r.id # loc[p].proposal_id}
             /\ \E r \in db.Proposal, t \in Times :
                   /\ r.id = loc[p].proposal_id
                   /\ {x \in db'.Proposal : x.id = r.id}
                        = {[r EXCEPT !.status = "rejected",
                                     !.decided_by = loc[p].user,
                                     !.decided_at = t]}]_vars

\* a reject has just committed while another proposal is the device's baseline
C13_Witness ==
    /\ resp.code = 200 /\ resp.body.status = "rejected"
    /\ db.Baseline # {}
    /\ \E r1, r2 \in db.Proposal :
          r1.status = "approved" /\ r2.status = "rejected"
          /\ r2.decided_by # NullUser

RECURSIVE AddedLinesOf(_, _)
\* the lines of b that the opcodes insert (present only in the candidate)
AddedLinesOf(codes, b) ==
    IF codes = <<>> THEN <<>>
    ELSE (IF codes[1].tag \in {"replace", "insert"}
          THEN SubSeq(b, codes[1].j1 + 1, codes[1].j2) ELSE <<>>)
         \o AddedLinesOf(Tail(codes), b)

RECURSIVE RemovedLinesOf(_, _)
\* the lines of a that the opcodes delete (present only in the baseline)
RemovedLinesOf(codes, a) ==
    IF codes = <<>> THEN <<>>
    ELSE (IF codes[1].tag \in {"replace", "delete"}
          THEN SubSeq(a, codes[1].i1 + 1, codes[1].i2) ELSE <<>>)
         \o RemovedLinesOf(Tail(codes), a)

\* the removed and the added lines of the change from lines a to lines b
ChangedLines(codes, a, b) == RemovedLinesOf(codes, a) \o AddedLinesOf(codes, b)

\* record p is at its baseline lookup: the lines of the baseline's text (none
\* without a baseline) and of the text recorded
HasBaselineAt(p) == SelectBaseline(wdb, loc[p].device_id) # {}
BaseLinesAt(p) ==
    splitlines(BaseText(wdb, CHOOSE b \in SelectBaseline(wdb, loc[p].device_id) : TRUE))
NewLinesAt(p) == splitlines(loc[p].text)

\* C15 as claimed: the severity record computes is the classification of the
\* added and removed lines alone; unchanged lines and header lines of the diff
\* have no part in it.
C15_SeverityFromChangedLines ==
    [][\A p \in Procs :
          (RecordDiff(p) /\ HasBaselineAt(p))
          => loc'[p].result.severity
               = classify_severity(
                    ChangedLines(get_opcodes(BaseLinesAt(p), NewLinesAt(p)),
                                 BaseLinesAt(p), NewLinesAt(p)))]_vars

\* C16: a record for a device without Baseline row answers at its baseline
\* lookup, without a diff: severity info, added 0, removed 0, the new snapshot's
\* id, and no DeviationEvent row, whatever the text.
C16_NoBaselineIsInfo ==
    [][\A p \in Procs :
          (/\ RecordDiff(p)
           /\ \A b \in wdb.Baseline : b.device_id # loc[p].device_id)
          => /\ resp'.to = p /\ resp'.code = 200 /\ pc'[p] = "idle"
             /\ resp'.body.severity = "info"
             /\ resp'.body.added = 0 /\ resp'.body.removed = 0
             /\ resp'.body.snapshot_id = loc[p].snapshot_id
             /\ db'.DeviationEvent = db.DeviationEvent]_vars

\* a text with an interface line was recorded for a device without baseline and
\* answered info
C16_Witness ==
    /\ resp.code = 200 /\ resp.body.severity = "info"
    /\ db.DeviationEvent = {}
    /\ \E x \in db.ConfigSnapshot :
          /\ x.id = resp.body.snapshot_id
          /\ x.text = CfgIfHost1
          /\ SelectBaseline(db, x.device_id) = {}

\* C17: a record that commits after a diff stores one DeviationEvent row, with the
\* severity and counts it returns, when that severity is not info, and none when
\* it is info (as for a text equal to the baseline's); a record without baseline
\* stores none; no other step changes DeviationEvent; no row has severity info.
C17_DeviationIffNotInfo ==
    [][/\ \A p \in Procs :
             RecordCommit(p)
             => /\ db.DeviationEvent \subseteq db'.DeviationEvent
                /\ IF resp'.body.severity = "info"
                   THEN db'.DeviationEvent = db.DeviationEvent
                   ELSE /\ Cardinality(db'.DeviationEvent)
                             = Cardinality(db.DeviationEvent) + 1
                        /\ \A e \in db'.DeviationEvent \ db.DeviationEvent :
                              /\ e.device_id = loc[p].device_id
                              /\ e.snapshot_id = resp'.body.snapshot_id
                              /\ e.severity = resp'.body.severity
                              /\ e.diff_stats = [added |-> resp'.body.added,
                                                 removed |-> resp'.body.removed]
                /\ (\A b \in SelectBaseline(db, loc[p].device_id) :
                       BaseText(db, b) = loc[p].text)
                     => db'.DeviationEvent = db.DeviationEvent
       /\ (\A p \in Procs : ~RecordCommit(p))
             => db'.DeviationEvent = db.DeviationEvent
       /\ \A e \in db'.DeviationEvent : e.severity \in {"warn", "critical"}]_vars

\* a record answered warn and its DeviationEvent row is stored
C17_Witness ==
    /\ resp.code = 200 /\ resp.body.severity = "warn"
    /\ \E e \in db.DeviationEvent :
          e.snapshot_id = resp.body.snapshot_id /\ e.severity = "warn"

\* the step in which record p returns
RecordReturns(p) == RecordCommit(p) \/ (RecordDiff(p) /\ ~HasBaselineAt(p))

\* C18: a record that returns has added one ConfigSnapshot row, of its device and
\* text, under a new id, which it returns; with or without baseline or
\* DeviationEvent, and also when the text is already stored for the device.
C18_RecordAppendsSnapshot ==
    [][\A p \in Procs :
          RecordReturns(p)
          => /\ resp'.code = 200
             /\ \A x \in db.ConfigSnapshot : x.id # resp'.body.snapshot_id
             /\ db'.ConfigSnapshot = db.ConfigSnapshot \cup
                   {[id |-> resp'.body.snapshot_id, device_id |-> loc[p].device_id,
                     text |-> loc[p].text, sha256 |-> _sha(loc[p].text)]}]_vars

\* a record of the baseline's own text has returned the id of a second snapshot
\* of that text
C18_Witness ==
    /\ resp.code = 200 /\ resp.body.severity = "info"
    /\ \E x1, x2 \in db.ConfigSnapshot, b \in db.Baseline :
          /\ x1.id # x2.id /\ x2.id = resp.body.snapshot_id
          /\ x1.device_id = x2.device_id /\ x1.text = x2.text
          /\ b.snapshot_id = x1.id

\* C19 as claimed: added is the number of lines the diff adds, removed the number
\* it removes, whatever the lines contain, so added - removed is the difference
\* of the line counts of the two texts.
C19_DiffStats ==
    [][\A p \in Procs :
          (RecordDiff(p) /\ HasBaselineAt(p))
          => /\ loc'[p].result.added
                  = Len(AddedLinesOf(get_opcodes(BaseLinesAt(p), NewLinesAt(p)),
                                     NewLinesAt(p)))
             /\ loc'[p].result.removed
                  = Len(RemovedLinesOf(get_opcodes(BaseLinesAt(p), NewLinesAt(p)),
                                       BaseLinesAt(p)))
             /\ loc'[p].result.added - loc'[p].result.removed
                  = Len(NewLinesAt(p)) - Len(BaseLinesAt(p))]_vars

\* every snapshot_id in a row of the tables d is the id of a snapshot
RefsResolve(d) ==
    \A r \in d.Baseline \cup d.BaselineHistory \cup d.Proposal \cup d.DeviationEvent :
        \E x \in d.ConfigSnapshot : x.id = r.snapshot_id

\* C20: no step removes or changes a ConfigSnapshot row, or gives the id of one to
\* another, and every snapshot_id of a Baseline, BaselineHistory, Proposal or
\* DeviationEvent row is the id of a snapshot.
C20_SnapshotsAppendOnly ==
    [][/\ db.ConfigSnapshot \subseteq db'.ConfigSnapshot
       /\ \A x \in db'.ConfigSnapshot, y \in db'.ConfigSnapshot :
             x.id = y.id => x = y
       /\ RefsResolve(db')]_vars

\* a proposal was approved and a changed text recorded: Baseline, Proposal and
\* DeviationEvent rows refer to the two snapshots
C20_Witness ==
    /\ db.Baseline # {} /\ db.DeviationEvent # {} /\ db.Proposal # {}
    /\ Cardinality(db.ConfigSnapshot) = 2

\* C21 as claimed: a decide(approve) whose UPDATE cannot take the write lock
\* before the timeout is not ended by that: the tables are as they were and the
\* operation is still under way, about to try its UPDATE again.
C21_BusyIsRetried ==
    [][\A p \in Procs :
          (/\ BusyTimeout(p)
           /\ pc[p] = "d_update" /\ loc[p].status = "approved")
          => /\ db' = db /\ wdb' = wdb
             /\ pc'[p] = "d_update" /\ resp' = NoResp]_vars

\* C22: the baseline a record reads is the device's Baseline row of the committed
\* state at that moment (the one before or the one after a concurrent approval):
\* it diffs against that row's text, answers "no baseline" only when the
\* committed state has no row for the device, and never sees a device whose
\* baseline has been archived or whose proposal has been approved without an
\* active Baseline row.
C22_RecordSeesCommittedBaseline ==
    [][\A p \in Procs :
          RecordDiff(p)
          => /\ IF \E b \in db.Baseline : b.device_id = loc[p].device_id
                THEN \E b \in db.Baseline, x \in db.ConfigSnapshot :
                        /\ b.device_id = loc[p].device_id /\ x.id = b.snapshot_id
                        /\ pc'[p] = "r_commit"
                        /\ loc'[p].result = DiffResult(x.text, loc[p].text)
                ELSE /\ pc'[p] = "idle" /\ resp'.to = p
                     /\ resp'.body.severity = "info"
             /\ (\/ \E h \in db.BaselineHistory : h.device_id = loc[p].device_id
                 \/ \E r \in db.Proposal :
                       r.device_id = loc[p].device_id /\ r.status = "approved")
                => pc'[p] = "r_commit"]_vars

\* a record for a device has diffed against the device's baseline while an
\* approval that will replace this baseline has read its proposal and waits for
\* the write lock
C22_Witness ==
    \E p, q \in Procs :
        /\ pc[p] = "r_commit" /\ lock = p
        /\ pc[q] = "d_update" /\ loc[q].status = "approved"
        /\ loc[q].prop.device_id = loc[p].device_id
        /\ \E b \in db.Baseline : b.device_id = loc[p].device_id
        /\ loc[p].result.severity = "critical"

\* C23: the deviations query of a device answers the DeviationEvent rows of that
\* device in the committed state, each once and no others, by descending id; and
\* when a record commits a DeviationEvent, that row is the first of its device's
\* list, ahead of the rows the list had before.
C23_DeviationsNewestFirst ==
    [][/\ \A p \in Procs, device_id \in Devices :
             GetDeviations(p, device_id)
             => /\ resp'.to = p /\ resp'.code = 200 /\ db' = db
                /\ Len(resp'.body.rows)
                     = Cardinality({e \in db.DeviationEvent : e.device_id = device_id})
                /\ \A e \in db.DeviationEvent :
                      e.device_id = device_id
                      => \E i \in 1..Len(resp'.body.rows) :
                            /\ resp'.body.rows[i].id = e.id
                            /\ resp'.body.rows[i].severity = e.severity
                            /\ resp'.body.rows[i].diff_stats = e.diff_stats
                /\ \A i, j \in 1..Len(resp'.body.rows) :
                      i < j => resp'.body.rows[i].id > resp'.body.rows[j].id
       /\ \A p \in Procs :
             (RecordCommit(p) /\ db'.DeviationEvent # db.DeviationEvent)
             => /\ \E e \in db'.DeviationEvent \ db.DeviationEvent :
                      /\ get_device_deviations(db', loc[p].device_id)[1].id = e.id
                      /\ e.snapshot_id = loc[p].snapshot_id
                /\ Tail(get_device_deviations(db', loc[p].device_id))
                     = get_device_deviations(db, loc[p].device_id)]_vars

\* the query has answered two events of a device, the later one first
C23_Witness ==
    /\ resp.code = 200 /\ Len(resp.body.rows) = 2
    /\ resp.body.rows[1].id = 2 /\ resp.body.rows[2].id = 1
    /\ \E e \in db.DeviationEvent : e.id = 2 /\ e.snapshot_id = 3

\* the step ends request p with this error and changes no row
FailsWith(p, code, msg) ==
    /\ resp'.code = code /\ resp'.error = msg /\ resp'.to = p
    /\ pc'[p] = "idle"
    /\ db' = db /\ wdb' = wdb

\* C24: a decide call with a valid action by an authenticated actor is answered
\* 404 when no proposal has the id; else 400 (already decided) when the
\* proposal's status is not pending, also when the actor is its proposer; else
\* 403 when the actor is its proposer; and in these cases no row changes.  Else
\* the call goes on to its UPDATE.
C24_DecideCheckOrder ==
    [][\A p \in Procs, in \in ValidDecides :
          DecideRead(p, in[1], in[2], in[3])
          => IF \A r \in db.Proposal : r.id # in[1]
             THEN FailsWith(p, 404, "Proposal not found")
             ELSE \A r \in db.Proposal :
                     r.id = in[1]
                     => IF r.status # "pending"
                        THEN FailsWith(p, 400, "Proposal already decided")
                        ELSE IF r.proposed_by = _current_user(in[3])
                        THEN FailsWith(p, 403, "Proposer cannot self-approve/reject")
                        ELSE /\ pc'[p] = "d_update" /\ resp' = NoResp
                             /\ db' = db /\ wdb' = wdb]_vars

\* a decide call was answered 404 while the tables hold a decided proposal and the
\* device's baseline
C24_Witness ==
    /\ resp.code = 404 /\ resp.error = "Proposal not found"
    /\ \E r \in db.Proposal : r.status = "approved"
    /\ db.Baseline # {}

\* C25: a propose that commits adds one ConfigSnapshot row (a new id, the given
\* device and text, the text's hash) and one Proposal row (a new id, which it
\* returns with 201; the device, the comment, snapshot_id the new snapshot's id,
\* proposed_by the actor, status pending, no decided_by, no decided_at) and
\* changes no other row of any table; a propose without text is answered 400 and
\* one of a text stored for the device 409, and neither adds a row.
C25_ProposeFrame ==
    [][/\ \A p \in Procs :
             ProposeCommit(p)
             => /\ resp'.code = 201 /\ resp'.to = p /\ resp'.body.status = "pending"
                /\ \A y \in db.ConfigSnapshot : y.id # loc[p].snapshot_id
                /\ \A r \in db.Proposal : r.id # resp'.body.id
                /\ db'.ConfigSnapshot = db.ConfigSnapshot \cup
                      {[id |-> loc[p].snapshot_id, device_id |-> loc[p].device_id,
                        text |-> loc[p].text, sha256 |-> _sha(loc[p].text)]}
                /\ db'.Proposal = db.Proposal \cup
                      {[id |-> resp'.body.id, device_id |-> loc[p].device_id,
                        snapshot_id |-> loc[p].snapshot_id,
                        comment |-> loc[p].comment, proposed_by |-> loc[p].user,
                        status |-> "pending", decided_by |-> NullUser,
                        decided_at |-> NullTime]}
                /\ db'.Baseline = db.Baseline
                /\ db'.BaselineHistory = db.BaselineHistory
                /\ db'.DeviationEvent = db.DeviationEvent
       /\ \A p \in Procs, in \in ProposeInputs, c \in Comments :
             (pc[p] = "idle" /\ ProposeCheck(p, in[1], in[2], c, in[3]))
             => IF in[2] = EmptyText
                THEN FailsWith(p, 400, "'snapshot' text required")
                ELSE IF _current_user(in[3]) = Unauthenticated
                THEN FailsWith(p, 403, "User not authenticated")
                ELSE IF \E s \in db.ConfigSnapshot :
                          s.device_id = in[1] /\ s.sha256 = _sha(in[2])
                THEN FailsWith(p, 409, "identical snapshot already exists")
                ELSE /\ db' = db /\ wdb' = wdb
                     /\ loc'[p].device_id = in[1] /\ loc'[p].text = in[2]
                     /\ loc'[p].comment = c
                     /\ loc'[p].user = _current_user(in[3])]_vars

\* a second propose has just committed while the first proposal's snapshot is the
\* device's baseline
C25_Witness ==
    /\ resp.code = 201 /\ resp.body.id = 2
    /\ \E r \in db.Proposal : r.id = 2 /\ r.status = "pending" /\ r.snapshot_id = 2
    /\ db.Baseline # {}

\* C26 as claimed: a decide call on the pending proposal that the request with
\* CredTokenTwin made, by a request that carries any other credential string, is
\* the call of another actor: it is not refused as a self-decision and goes on
\* to its UPDATE.
C26_OtherCredentialOtherActor ==
    [][\A p \in Procs, action \in Actions, cred \in ActorCreds :
          \A r \in db.Proposal :
             (/\ DecideRead(p, r.id, action, cred)
              /\ r.status = "pending"
              /\ r.proposed_by = _current_user(CredTokenTwin)
              /\ cred # CredTokenTwin)
             => pc'[p] = "d_update"]_vars

\* the device that the operation of request p is about: a decide's is its
\* proposal's
OpDevice(p) ==
    IF pc[p] \in {"d_update", "d_promote", "d_commit"}
    THEN loc[p].prop.device_id ELSE loc[p].device_id

\* what the tables d hold about device B: its Baseline, BaselineHistory and
\* DeviationEvent rows and the texts that its duplicate check refuses
DeviceView(d, B) ==
    [Baseline |-> {b \in d.Baseline : b.device_id = B},
     BaselineHistory |-> {h \in d.BaselineHistory : h.device_id = B},
     DeviationEvent |-> {e \in d.DeviationEvent : e.device_id = B},
     duplicates |-> {t \in Texts : SelectExisting(d, B, _sha(t)) # {}}]

\* C27: a step changes the committed Baseline, BaselineHistory and DeviationEvent
\* rows of a device, or the outcome of its duplicate check, only when it is a
\* step of a propose, decide or record for that device (the holder of the write
\* lock): operations for one device leave every other device's as they were.
C27_DeviceIsolation ==
    [][\A B \in Devices :
          (\A p \in Procs : lock = p => OpDevice(p) # B)
          => DeviceView(db', B) = DeviceView(db, B)]_vars

\* each of the two devices has a baseline, and one of them was replaced
C27_Witness ==
    /\ \A B \in Devices : \E b \in db.Baseline : b.device_id = B
    /\ db.BaselineHistory # {}

\* C28: a device that has a Baseline row in the committed state has exactly one
\* after every step: after an approval that replaces it, and after an approval
\* that ends anywhere between its UPDATE and its commit (a failure after the
\* archive, after the DELETE or at the INSERT), whose statements are undone.
C28_BaselineNeverDisappears ==
    [][\A B \in Devices :
          (\E b \in db.Baseline : b.device_id = B)
          => Cardinality({b \in db'.Baseline : b.device_id = B}) = 1]_vars

\* an approval has deleted the device's committed Baseline row and inserted
\* another in its transaction, which is not committed yet
C28_Witness ==
    \E p \in Procs :
        /\ pc[p] = "d_commit" /\ lock = p /\ loc[p].status = "approved"
        /\ \E b \in db.Baseline :
              /\ b.device_id = loc[p].prop.device_id
              /\ b.snapshot_id # loc[p].prop.snapshot_id
              /\ b \notin wdb.Baseline

\* C29 as claimed: in every committed state no BaselineHistory row of a device
\* has the snapshot_id of the device's active Baseline row (no baseline is
\* archived as replaced by itself), also after concurrent approve calls on one
\* proposal.
C29_NotReplacedByItself ==
    \A b \in db.Baseline, h \in db.BaselineHistory :
        h.device_id = b.device_id => h.snapshot_id # b.snapshot_id

\* C30: in every committed state a proposal has decided_by and decided_at exactly
\* when its status is approved or rejected, and the Baseline row of an approved
\* proposal's snapshot has this proposal's decided_by as its set_by, also after
\* decide calls of different actors on one proposal have run concurrently.
C30_DecisionMetadata ==
    \A r \in db.Proposal :
        /\ r.status \in {"pending", "approved", "rejected"}
        /\ (r.decided_by # NullUser) <=> (r.status \in Decided)
        /\ (r.decided_at # NullTime) <=> (r.status \in Decided)
        /\ r.status = "approved"
           => \A b \in db.Baseline :
                 (b.device_id = r.device_id /\ b.snapshot_id = r.snapshot_id)
                 => b.set_by = r.decided_by

\* two approvals of one proposal have committed, the later one by alice: the
\* snapshot is the baseline and in the history, and alice the proposal's decider
C30_Witness ==
    \E r \in db.Proposal, b \in db.Baseline, h \in db.BaselineHistory :
        /\ r.status = "approved" /\ r.decided_by = _current_user(CredAlice)
        /\ b.snapshot_id = r.snapshot_id /\ h.snapshot_id = r.snapshot_id
        /\ \E p \in Procs :
              resp.to = p /\ resp.code = 200 /\ resp.body.status = "approved"

====
